---- MODULE Spec2Model ----
(***************************************************************************)
(* The Fibonacci class of src/fibonacci.py: one instance (self.memo,       *)
(* self.numOps) and its four public methods recursive, memoization,        *)
(* dynamicProgramming and closedForm.                                      *)
(*                                                                         *)
(* A call is followed in two steps.  The first runs the method from its    *)
(* first line through the argument checks and the resets that precede the  *)
(* computation; it either raises (the call is over) or leaves the call     *)
(* running.  The second runs the computation and the return.  The program  *)
(* is single threaded, so nothing happens between the two.  The second     *)
(* step is taken only for the arguments whose computation is evaluated     *)
(* here (MaxN, MaxCF); a call with a larger accepted argument is followed  *)
(* up to the start of its computation.                                     *)
(*                                                                         *)
(* Python integers are unbounded: a value is a PyInt, the little-endian    *)
(* sequence of its base-2^14 digits, without leading zeros.                *)
(***************************************************************************)
EXTENDS Integers, Sequences, FiniteSets, TLC

\* ------------------------------------------------------------- bounds
\* recursive, memoization and dynamicProgramming are tried on every argument
\* up to MaxN, and their computations are evaluated up to it.
MaxN == 14
\* Arguments -MaxNeg..0 are the invalid ones tried.
MaxNeg == 2
\* closedForm is tried on every argument up to MaxCF, and evaluated up to it.
MaxCF == 72

\* -------------------------------------------------- program constants
RecursiveLimit == 40
MemoizationLimit == 1995
DynamicProgrammingLimit == 2000000
ClosedFormLimit == 604
\* The limit the comment above dynamicProgramming's check documents.
DocumentedDPLimit == 20000000

\* -------------------------------------------------- evaluation order
\* Then(x, e) is e, with x evaluated first.  The methods run their
\* statements in order; TLC evaluates a definition only when its value is
\* used, which nests the evaluations of a long chain of statements.
Then(x, e) == IF x = x THEN e ELSE e

\* ------------------------------------------------------ Python integers
Base == 2^14

\* digit i of a (0 beyond its length)
Limb(a, i) == IF i <= Len(a) THEN a[i] ELSE 0

\* cols[lo..hi] with the carry cin propagated through: the digits, and the
\* carry out of position hi
RECURSIVE Carry(_, _, _, _)
Carry(cols, lo, hi, cin) ==
    IF lo > hi THEN [digits |-> <<>>, carry |-> cin]
    ELSE IF lo = hi
    THEN [digits |-> <<(cols[lo] + cin) % Base>>,
          carry |-> (cols[lo] + cin) \div Base]
    ELSE LET mid == (lo + hi) \div 2
             low == Carry(cols, lo, mid, cin)
         IN  Then(low,
                  LET high == Carry(cols, mid + 1, hi, low.carry)
                  IN  [digits |-> low.digits \o high.digits,
                       carry |-> high.carry])

\* a without its leading zero digits
RECURSIVE Trim(_)
Trim(a) ==
    IF a # <<>> /\ a[Len(a)] = 0 THEN Trim(SubSeq(a, 1, Len(a) - 1)) ELSE a

\* the integer whose digit sums are cols (each below 2^30, the top one 0)
FromColumns(cols) == Trim(Carry(cols, 1, Len(cols), 0).digits)

\* a + b on Python integers (never overflows)
PyAdd(a, b) ==
    LET len == (IF Len(a) > Len(b) THEN Len(a) ELSE Len(b)) + 1
    IN  FromColumns([i \in 1..len |-> Limb(a, i) + Limb(b, i)])

\* the Python integer 1
One == <<1>>

\* the larger of two numbers
Max(x, y) == IF x > y THEN x ELSE y

\* a - b on Python integers, for a >= b
PySub(a, b) ==
    FromColumns([i \in 1..(Len(a) + 1) |-> Limb(a, i) - Limb(b, i)])

\* a <= b on Python integers
PyLeq(a, b) ==
    IF Len(a) # Len(b) THEN Len(a) < Len(b)
    ELSE LET diff == {i \in 1..Len(a) : a[i] # b[i]}
         IN  \/ diff = {}
             \/ LET top == CHOOSE i \in diff : \A j \in diff : j <= i
                IN  a[top] < b[top]

\* a with k zero digits put below it: a * Base^k
ShiftDigits(a, k) == IF a = <<>> THEN <<>> ELSE [i \in 1..k |-> 0] \o a

\* a * (b[j] ... b[j+3], in place): four rows of the long multiplication
\* at once (four products of two digits, and a carry, stay below 2^31)
MulChunk(a, b, j) ==
    ShiftDigits(FromColumns([k \in 1..(Len(a) + 5) |->
                                Limb(a, k) * Limb(b, j)
                                + (IF k > 1 THEN Limb(a, k - 1) * Limb(b, j + 1)
                                   ELSE 0)
                                + (IF k > 2 THEN Limb(a, k - 2) * Limb(b, j + 2)
                                   ELSE 0)
                                + (IF k > 3 THEN Limb(a, k - 3) * Limb(b, j + 3)
                                   ELSE 0)]),
                j - 1)

\* a * (the digits of b from j on, in place)
RECURSIVE MulRows(_, _, _)
MulRows(a, b, j) ==
    IF j + 3 >= Len(b) THEN MulChunk(a, b, j)
    ELSE LET rest == MulRows(a, b, j + 4)
         IN  Then(rest, PyAdd(MulChunk(a, b, j), rest))

\* a * b on Python integers, b the shorter one for a shallow evaluation
PyMul(a, b) ==
    IF a = <<>> \/ b = <<>> THEN <<>> ELSE MulRows(a, b, 1)

\* acc * a ** n: n multiplications by a, one after the other
RECURSIVE PowSteps(_, _, _)
PowSteps(acc, a, n) ==
    IF n = 0 THEN acc
    ELSE IF n = 1 THEN PyMul(acc, a)
    ELSE LET first == PowSteps(acc, a, n \div 2)
         IN  Then(first, PowSteps(first, a, n - (n \div 2)))

\* a ** n on Python integers, n >= 0
PyPow(a, n) == PowSteps(One, a, n)

\* the Python integer of a small number k >= 0
PyInt(k) == Trim(<<k % Base, k \div Base>>)

\* a << k and a >> k
PyShiftLeft(a, k) == ShiftDigits(PyMul(a, <<2^(k % 14)>>), k \div 14)

PyShiftRight(a, k) ==
    LET d == k \div 14
        r == k % 14
    IN  IF Len(a) <= d THEN <<>>
        ELSE Trim([i \in 1..(Len(a) - d) |->
                      (a[i + d] \div 2^r)
                      + (Limb(a, i + d + 1) % 2^r) * 2^(14 - r)])

\* bit k of a (bit 0 is the lowest), and whether every bit below k is 0
Bit(a, k) == (Limb(a, (k \div 14) + 1) \div 2^(k % 14)) % 2

LowBitsZero(a, k) ==
    /\ \A i \in 1..(k \div 14) : Limb(a, i) = 0
    /\ Limb(a, (k \div 14) + 1) % 2^(k % 14) = 0

\* the number of bits of a (0 for 0)
BitLength(a) ==
    IF a = <<>> THEN 0
    ELSE 14 * (Len(a) - 1)
         + (CHOOSE b \in 1..14 : 2^(b - 1) <= a[Len(a)] /\ a[Len(a)] < 2^b)

\* ------------------------------------------------- IEEE 754 doubles
\* A Python float is a double: [neg, m, e] is (-1)^neg * m * 2^e with m a
\* Python integer of exactly MantissaBits bits, or m = 0.  The exponent
\* range is not modelled: no evaluated closedForm call leaves it.
\* fault: the 24-bit significand of single precision
SinglePrecisionBits == 53 - 29

MantissaBits == 53

FloatZero == [neg |-> FALSE, m |-> <<>>, e |-> 0]

\* The double nearest to (-1)^neg * (N + f) * 2^e, ties to even, where
\* 0 <= f < 1 and sticky says f > 0 (then N has more than MantissaBits bits)
RoundToDouble(neg, N, e, sticky) ==
    LET len == BitLength(N)
        drop == len - MantissaBits
    IN  IF N = <<>> THEN FloatZero
        ELSE IF drop <= 0
        THEN [neg |-> neg, m |-> PyShiftLeft(N, 0 - drop), e |-> e + drop]
        ELSE LET q == PyShiftRight(N, drop)
                 half == Bit(N, drop - 1) = 1
                 rest == sticky \/ ~LowBitsZero(N, drop - 1)
                 up == half /\ (rest \/ Bit(q, 0) = 1)
                 m == IF up THEN PyAdd(q, One) ELSE q
             IN  IF BitLength(m) > MantissaBits
                 THEN [neg |-> neg, m |-> PyShiftRight(m, 1),
                       e |-> e + drop + 1]
                 ELSE [neg |-> neg, m |-> m, e |-> e + drop]

\* float(k) for a Python integer k >= 0
IntToFloat(k) == RoundToDouble(FALSE, k, 0, FALSE)

\* x + y
FloatAdd(x, y) ==
    LET e == IF x.e < y.e THEN x.e ELSE y.e
        X == PyShiftLeft(x.m, x.e - e)
        Y == PyShiftLeft(y.m, y.e - e)
    IN  IF x.m = <<>> THEN y
        ELSE IF y.m = <<>> THEN x
        ELSE IF x.neg = y.neg THEN RoundToDouble(x.neg, PyAdd(X, Y), e, FALSE)
        ELSE IF PyLeq(Y, X) THEN RoundToDouble(x.neg, PySub(X, Y), e, FALSE)
        ELSE RoundToDouble(y.neg, PySub(Y, X), e, FALSE)

\* -x and x - y
FloatNeg(x) == IF x.m = <<>> THEN x ELSE [x EXCEPT !.neg = ~@]

FloatSub(x, y) == FloatAdd(x, FloatNeg(y))

\* x * y
FloatMul(x, y) ==
    RoundToDouble(x.neg # y.neg, PyMul(x.m, y.m), x.e + y.e, FALSE)

\* x ** n for a Python integer n >= 0: C's pow(x, n), which rounds the
\* exact power correctly on the arguments closedForm gives it
FloatPow(x, n) ==
    RoundToDouble(x.neg /\ n % 2 = 1, PyPow(x.m, n), x.e * n, FALSE)

\* one more bit of the long division by d: st.r is the remainder so far,
\* st.q the quotient so far
DivideBit(st, d) ==
    LET r2 == PyAdd(st.r, st.r)
        q2 == PyAdd(st.q, st.q)
    IN  IF PyLeq(d, r2)
        THEN [r |-> PySub(r2, d), q |-> PyAdd(q2, One)]
        ELSE [r |-> r2, q |-> q2]

\* steps more bits of it, one after the other
RECURSIVE DivideBits(_, _, _)
DivideBits(st, d, steps) ==
    IF steps = 0 THEN st
    ELSE IF steps = 1 THEN DivideBit(st, d)
    ELSE LET first == DivideBits(st, d, steps \div 2)
         IN  Then(first, DivideBits(first, d, steps - (steps \div 2)))

\* x / y, y # 0
FloatDiv(x, y) ==
    LET first == IF PyLeq(y.m, x.m)
                 THEN [r |-> PySub(x.m, y.m), q |-> One]
                 ELSE [r |-> x.m, q |-> <<>>]
        res == DivideBits(first, y.m, MantissaBits + 2)
    IN  IF x.m = <<>> THEN FloatZero
        ELSE RoundToDouble(x.neg # y.neg, res.q,
                           x.e - y.e - (MantissaBits + 2), res.r # <<>>)

\* r with the bits hi down to lo set where that keeps r * r <= N, the
\* higher bits first
RECURSIVE SqrtBits(_, _, _, _)
SqrtBits(N, r, hi, lo) ==
    IF hi < lo THEN r
    ELSE IF hi = lo
    THEN LET t == PyAdd(r, PyShiftLeft(One, hi))
         IN  IF PyLeq(PyMul(t, t), N) THEN t ELSE r
    ELSE LET mid == (hi + lo) \div 2
             upper == SqrtBits(N, r, hi, mid + 1)
         IN  Then(upper, SqrtBits(N, upper, mid, lo))

\* k ** 0.5 for a small integer k that is no square: the double nearest
\* to the square root
FloatSqrt(k) ==
    LET N == PyShiftLeft(PyInt(k), 2 * (MantissaBits + 1))
    IN  RoundToDouble(FALSE, SqrtBits(N, <<>>, MantissaBits + 2, 0),
                      0 - (MantissaBits + 1), TRUE)

\* round(x) for x >= 0: the nearest Python integer, ties to even
PyRound(x) ==
    IF x.m = <<>> THEN <<>>
    ELSE IF x.e >= 0 THEN PyShiftLeft(x.m, x.e)
    ELSE LET drop == 0 - x.e
             q == PyShiftRight(x.m, drop)
             half == Bit(x.m, drop - 1) = 1
             rest == ~LowBitsZero(x.m, drop - 1)
         IN  IF half /\ (rest \/ Bit(q, 0) = 1) THEN PyAdd(q, One) ELSE q

\* ---------------------------------------------------------------- state
VARIABLES
    memo,      \* self.memo: a dict, here a function from its keys to PyInts
    numOps,    \* self.numOps
    pc,        \* "idle": no call in progress; "running": past the checks
    call,      \* the method and argument of the current (or last) call
    ret,       \* how the last call ended, and the tuple it returned
    trace      \* bookkeeping on the last memoization call (not program state):
               \* whether self.memo held entries when it was entered
               \* ("larger": more than the argument), and what
               \* MemoizationHelper recorded

vars == <<memo, numOps, pc, call, ret, trace>>

EmptyDict == <<>>

NoTrace == [writes |-> <<>>, clobbers |-> 0, hits |-> 0, stale |-> "no"]

NoReturn == [kind |-> "none", value |-> <<>>, ops |-> 0]

\* Fibonacci.__init__
Init ==
    /\ memo = EmptyDict
    /\ numOps = 0
    /\ pc = "idle"
    /\ call = [strategy |-> "none", n |-> 0]
    /\ ret = NoReturn
    /\ trace = NoTrace

\* raise ValueError(...): the call ends, nothing is returned
Raise(kind) == [kind |-> kind, value |-> <<>>, ops |-> 0]

\* return value, self.numOps, duration
Return(value, ops) == [kind |-> "Result", value |-> value, ops |-> ops]

\* -------------------------------------------------------------- inputs
BoundaryInputs ==
    { RecursiveLimit, RecursiveLimit + 1,
      ClosedFormLimit, ClosedFormLimit + 1,
      MemoizationLimit, MemoizationLimit + 1,
      DynamicProgrammingLimit, DynamicProgrammingLimit + 1,
      DocumentedDPLimit, DocumentedDPLimit + 1 }

Inputs == ((0 - MaxNeg) .. MaxN) \cup BoundaryInputs

ClosedFormInputs == ((0 - MaxNeg) .. MaxCF) \cup BoundaryInputs

\* ---------------------------------------------------------- recursive
\* fault: the limit itself is rejected (n >= 40 in place of n > 40)
RecursiveCheckInclusive(n) ==
    IF n < 1 THEN "InvalidArgument"
    ELSE IF n >= 40 THEN "OutOfRange"
    ELSE "ok"

\* the checks of recursive(), lines 34-39
RecursiveCheck(n) ==
    IF n < 1 THEN "InvalidArgument"
    ELSE IF n > RecursiveLimit THEN "OutOfRange"
    ELSE "ok"

\* fault: the counter is not reset
RecursiveKeepCount(ops) == ops

\* self.numOps = 0 (line 42)
RecursiveReset(ops) == 0

RecursiveEnter(n) ==
    /\ pc = "idle"
    /\ call' = [strategy |-> "recursive", n |-> n]
    /\ IF RecursiveCheck(n) # "ok"
       THEN /\ ret' = Raise(RecursiveCheck(n))
            /\ UNCHANGED <<memo, numOps, pc, trace>>
       ELSE /\ numOps' = RecursiveReset(numOps)
            /\ pc' = "running"
            /\ ret' = NoReturn
            /\ UNCHANGED <<memo, trace>>

\* fault: a combining step charged 6
RecursiveStepUndercharged == 7 - 1

\* charge of a base-case return (line 63) and of a combining step (line 68)
RecursiveBaseCost == 1
RecursiveStepCost == 7

\* _recursive(n), with self.numOps threaded through as ops
RECURSIVE RecursiveHelper(_, _)
RecursiveHelper(ops, n) ==
    IF n = 1 \/ n = 2
    THEN [numOps |-> ops + RecursiveBaseCost, value |-> One]
    ELSE LET l == RecursiveHelper(ops, n - 2)
         IN  Then(l,
                  LET r == RecursiveHelper(l.numOps, n - 1)
                  IN  [numOps |-> r.numOps + RecursiveStepCost,
                       value |-> PyAdd(l.value, r.value)])

\* lines 45-51
RecursiveCompute ==
    /\ pc = "running"
    /\ call.strategy = "recursive"
    /\ call.n <= MaxN
    /\ LET r == RecursiveHelper(numOps, call.n)
       IN  /\ numOps' = r.numOps + 2
           /\ ret' = Return(r.value, r.numOps + 2)
    /\ pc' = "idle"
    /\ UNCHANGED <<memo, call, trace>>

\* -------------------------------------------------------- memoization
\* the checks of memoization(), lines 84-90
MemoizationCheck(n) ==
    IF n < 1 THEN "InvalidArgument"
    ELSE IF n > MemoizationLimit THEN "OutOfRange"
    ELSE "ok"

\* fault: the memo of the previous call is kept
MemoizationKeepMemo(m) == m

\* self.memo = {} (line 93)
MemoizationResetMemo(m) == EmptyDict

\* self.numOps = 0 (line 94)
MemoizationResetOps(ops) == 0

\* fault: the resets come before the checks
MemoizationEnterResetFirst(n) ==
    /\ pc = "idle"
    /\ call' = [strategy |-> "memoization", n |-> n]
    /\ memo' = EmptyDict
    /\ numOps' = 0
    /\ trace' = NoTrace
    /\ IF n < 1 \/ n > 1995
       THEN /\ ret' = Raise(IF n < 1 THEN "InvalidArgument" ELSE "OutOfRange")
            /\ UNCHANGED pc
       ELSE /\ pc' = "running"
            /\ ret' = NoReturn

MemoizationEnter(n) ==
    /\ pc = "idle"
    /\ call' = [strategy |-> "memoization", n |-> n]
    /\ IF MemoizationCheck(n) # "ok"
       THEN /\ ret' = Raise(MemoizationCheck(n))
            /\ UNCHANGED <<memo, numOps, pc, trace>>
       ELSE /\ memo' = MemoizationResetMemo(memo)
            /\ numOps' = MemoizationResetOps(numOps)
            /\ pc' = "running"
            /\ ret' = NoReturn
            /\ trace' = [NoTrace EXCEPT !.stale =
                            IF memo = EmptyDict THEN "no"
                            ELSE IF Cardinality(DOMAIN memo) > n THEN "larger"
                            ELSE "smaller"]

\* self.memo[k] = v
Put(m, k, v) == [x \in DOMAIN m \cup {k} |-> IF x = k THEN v ELSE m[x]]

\* fault: the memo is not consulted for a key >= 3
MissingWhateverMemo(m, n) == n \notin {1, 2}

\* n not in self.memo (line 122)
Missing(m, n) == n \notin DOMAIN m

\* _memoization(n): st holds self.memo and self.numOps, and the bookkeeping:
\* writes lists the keys assigned at line 124 (one per request that
\* recursed), clobbers counts those that replaced an entry, hits counts the
\* requests for a key >= 3 answered from the memo.
RECURSIVE MemoizationHelper(_, _)
MemoizationHelper(st, n) ==
    LET s1 == IF 1 \notin DOMAIN st.memo
              THEN [st EXCEPT !.memo = Put(@, 1, One), !.numOps = @ + 2]
              ELSE st
        s2 == IF 2 \notin DOMAIN s1.memo
              THEN [s1 EXCEPT !.memo = Put(@, 2, One), !.numOps = @ + 2]
              ELSE [s1 EXCEPT !.numOps = @ + 2]
        s3 == IF Missing(s2.memo, n)
              THEN LET l == MemoizationHelper(s2, n - 2)
                   IN  Then(l,
                       LET r == MemoizationHelper(l.st, n - 1)
                       IN  Then(r,
                           [r.st EXCEPT
                              !.memo = Put(@, n, PyAdd(l.value, r.value)),
                              !.numOps = @ + 7,
                              !.writes = Append(@, n),
                              !.clobbers = @ + (IF n \in DOMAIN r.st.memo
                                                THEN 1 ELSE 0)]))
              ELSE [s2 EXCEPT !.hits = @ + (IF n >= 3 THEN 1 ELSE 0)]
    IN  Then(s2, Then(s3, [st |-> [s3 EXCEPT !.numOps = @ + 1],
                           value |-> s3.memo[n]]))

\* lines 97-102
MemoizationCompute ==
    /\ pc = "running"
    /\ call.strategy = "memoization"
    /\ call.n <= MaxN
    /\ LET r == MemoizationHelper([memo |-> memo, numOps |-> numOps,
                                   writes |-> <<>>, clobbers |-> 0,
                                   hits |-> 0], call.n)
       IN  /\ memo' = r.st.memo
           /\ numOps' = r.st.numOps + 2
           /\ ret' = Return(r.value, r.st.numOps + 2)
           /\ trace' = [trace EXCEPT !.writes = r.st.writes,
                                     !.clobbers = r.st.clobbers,
                                     !.hits = r.st.hits]
    /\ pc' = "idle"
    /\ UNCHANGED call

\* ------------------------------------------------- dynamicProgramming
\* fault: only a negative argument is invalid (n < 0 in place of n < 1)
DynamicProgrammingCheckNegative(n) ==
    IF n < 0 THEN "InvalidArgument"
    ELSE IF n > 2000000 THEN "OutOfRange"
    ELSE "ok"

\* the checks of dynamicProgramming(), lines 153-161
DynamicProgrammingCheck(n) ==
    IF n < 1 THEN "InvalidArgument"
    ELSE IF n > DynamicProgrammingLimit THEN "OutOfRange"
    ELSE "ok"

\* self.numOps = 3 (line 169)
DynamicProgrammingReset(ops) == 3

DynamicProgrammingEnter(n) ==
    /\ pc = "idle"
    /\ call' = [strategy |-> "dynamicProgramming", n |-> n]
    /\ IF DynamicProgrammingCheck(n) # "ok"
       THEN /\ ret' = Raise(DynamicProgrammingCheck(n))
            /\ UNCHANGED <<memo, numOps, pc, trace>>
       ELSE /\ numOps' = DynamicProgrammingReset(numOps)
            /\ pc' = "running"
            /\ ret' = NoReturn
            /\ UNCHANGED <<memo, trace>>

\* fault: range(3, n), which leaves the last iteration out
LoopLastExclusive(n) == n - 1

\* range(3, n+1), line 180
LoopLast(n) == n

\* charge of one iteration (line 184)
DynamicProgrammingStepCost == 4

\* the body of the for loop, lines 181-184
DynamicProgrammingStep(st) ==
    LET value == PyAdd(st.a, st.b)
    IN  [a |-> st.b, b |-> value, value |-> value,
         numOps |-> st.numOps + DynamicProgrammingStepCost]

\* the for loop of lines 180-184: the iterations m = first .. last, one
\* after the other
RECURSIVE DynamicProgrammingLoop(_, _, _)
DynamicProgrammingLoop(st, first, last) ==
    IF first > last THEN st
    ELSE IF first = last THEN DynamicProgrammingStep(st)
    ELSE LET mid == (first + last) \div 2
             half == DynamicProgrammingLoop(st, first, mid)
         IN  Then(half, DynamicProgrammingLoop(half, mid + 1, last))

\* lines 166-189
DynamicProgrammingCompute ==
    /\ pc = "running"
    /\ call.strategy = "dynamicProgramming"
    /\ call.n <= MaxN
    /\ IF call.n = 1 \/ call.n = 2
       THEN /\ numOps' = numOps + 2
            /\ ret' = Return(One, numOps + 2)
       ELSE LET r == DynamicProgrammingLoop(
                         [a |-> One, b |-> One, value |-> One,
                          numOps |-> numOps], 3, LoopLast(call.n))
            IN  /\ numOps' = r.numOps
                /\ ret' = Return(r.value, r.numOps)
    /\ pc' = "idle"
    /\ UNCHANGED <<memo, call, trace>>

\* --------------------------------------------------------- closedForm
\* the checks of closedForm(), lines 216-221
ClosedFormCheck(n) ==
    IF n < 1 THEN "InvalidArgument"
    ELSE IF n > ClosedFormLimit THEN "OutOfRange"
    ELSE "ok"

\* self.numOps = 0 (line 223)
ClosedFormReset(ops) == 0

ClosedFormEnter(n) ==
    /\ pc = "idle"
    /\ call' = [strategy |-> "closedForm", n |-> n]
    /\ IF ClosedFormCheck(n) # "ok"
       THEN /\ ret' = Raise(ClosedFormCheck(n))
            /\ UNCHANGED <<memo, numOps, pc, trace>>
       ELSE /\ numOps' = ClosedFormReset(numOps)
            /\ pc' = "running"
            /\ ret' = NoReturn
            /\ UNCHANGED <<memo, trace>>

\* 5 ** 0.5
SquareRootOfFive == FloatSqrt(5)

\* round((((1 + (5 ** 0.5)) ** n) - ((1 - (5 ** 0.5)) ** n))
\*       / ((2 ** n) * (5 ** 0.5)))                              (line 227)
ClosedFormExpression(n) ==
    LET plus == FloatPow(FloatAdd(IntToFloat(One), SquareRootOfFive), n)
        minus == FloatPow(FloatSub(IntToFloat(One), SquareRootOfFive), n)
        denominator == FloatMul(IntToFloat(PyPow(PyInt(2), n)),
                                SquareRootOfFive)
    IN  PyRound(FloatDiv(FloatSub(plus, minus), denominator))

\* the values of that expression on the arguments evaluated, computed once
ClosedFormValues == [n \in 1..MaxCF |-> ClosedFormExpression(n)] \o <<>>

\* charge of the whole computation (line 229)
ClosedFormCost == 13

\* lines 226-231
ClosedFormCompute ==
    /\ pc = "running"
    /\ call.strategy = "closedForm"
    /\ call.n <= MaxCF
    /\ numOps' = numOps + ClosedFormCost
    /\ ret' = Return(ClosedFormValues[call.n], numOps + ClosedFormCost)
    /\ pc' = "idle"
    /\ UNCHANGED <<memo, call, trace>>

Next ==
    \/ \E n \in Inputs : RecursiveEnter(n)
    \/ RecursiveCompute
    \/ \E n \in Inputs : MemoizationEnter(n)
    \/ MemoizationCompute
    \/ \E n \in Inputs : DynamicProgrammingEnter(n)
    \/ DynamicProgrammingCompute
    \/ \E n \in ClosedFormInputs : ClosedFormEnter(n)
    \/ ClosedFormCompute

Spec == Init /\ [][Next]_vars

\* ------------------------------------------------------------ properties
\* The Fibonacci numbers F(1) .. F(k) of the specification: F(1) = F(2) = 1,
\* F(k) = F(k-1) + F(k-2); seq holds the first ones, count more are added.
RECURSIVE FibonacciExtend(_, _)
FibonacciExtend(seq, count) ==
    IF count = 0 THEN seq
    ELSE IF count = 1
    THEN Append(seq, IF Len(seq) < 2 THEN One
                     ELSE PyAdd(seq[Len(seq)], seq[Len(seq) - 1]))
    ELSE LET first == FibonacciExtend(seq, count \div 2)
         IN  Then(first, FibonacciExtend(first, count - (count \div 2)))

FibonacciNumbers == FibonacciExtend(<<>>, Max(MaxN, MaxCF))

F(n) == FibonacciNumbers[n]

ExactStrategies == {"recursive", "memoization", "dynamicProgramming"}

Returned == ret.kind = "Result"

\* C1: whenever recursive, memoization or dynamicProgramming returns, the
\* value returned is F(n) for the argument n of the call (so the three agree
\* on every argument they all accept).
ExactStrategiesReturnFibonacci ==
    (Returned /\ call.strategy \in ExactStrategies) => ret.value = F(call.n)

\* a recursive, a memoization or a dynamicProgramming call on the largest
\* evaluated argument has returned
ExactStrategyReturnedAtMaxN ==
    Returned /\ call.strategy \in ExactStrategies /\ call.n = MaxN
             /\ Len(ret.value) > 0

\* C2 (as the specification states it): dynamicProgramming raises no
\* OutOfRange for an argument from 1 up to 20,000,000.
DynamicProgrammingAcceptsUpToTwentyMillion ==
    (call.strategy = "dynamicProgramming" /\ call.n >= 1
        /\ call.n <= 20000000) => ret.kind # "OutOfRange"

\* C3: a call of any of the four methods with n = 0 or n negative ends by
\* raising InvalidArgument in the step that enters it: the call never
\* starts running, never returns, never raises OutOfRange, and the step
\* changes neither self.numOps nor self.memo.
NonPositiveArgumentIsInvalid ==
    [][(pc = "idle" /\ call'.n < 1)
          => /\ ret'.kind = "InvalidArgument"
             /\ pc' = "idle"
             /\ numOps' = numOps
             /\ memo' = memo]_vars

\* closedForm has raised InvalidArgument for n < 1 on an instance whose
\* counter an earlier call had set
InvalidArgumentRaisedAfterEarlierCall ==
    /\ call.strategy = "closedForm" /\ call.n < 1
    /\ ret.kind = "InvalidArgument" /\ numOps > 0

\* the call is past the argument checks: it runs or it has returned
Accepted == pc = "running" \/ Returned

\* C4: for n >= 1, recursive, memoization and closedForm raise OutOfRange
\* exactly when n > 40, n > 1995 and n > 604, and accept n otherwise;
\* dynamicProgramming raises OutOfRange for every n > 20,000,000.
OutOfRangeExactlyAboveLimit ==
    (call.strategy # "none" /\ call.n >= 1) =>
        /\ call.strategy = "recursive" =>
              IF call.n > 40 THEN ret.kind = "OutOfRange" ELSE Accepted
        /\ call.strategy = "memoization" =>
              IF call.n > 1995 THEN ret.kind = "OutOfRange" ELSE Accepted
        /\ call.strategy = "closedForm" =>
              IF call.n > 604 THEN ret.kind = "OutOfRange" ELSE Accepted
        /\ (call.strategy = "dynamicProgramming" /\ call.n > 20000000) =>
              ret.kind = "OutOfRange"

\* recursive(40) is past its checks
RecursiveAcceptedFortySeen ==
    call.strategy = "recursive" /\ call.n = 40 /\ pc = "running"

\* C5: a call that fails its argument check (either way) leaves self.numOps
\* and self.memo exactly as they were before the call.
FailedCallLeavesInstanceUntouched ==
    [][(pc = "idle" /\ ret'.kind \in {"InvalidArgument", "OutOfRange"})
          => (numOps' = numOps /\ memo' = memo)]_vars

\* memoization has raised OutOfRange on an instance that holds a memo and a
\* counter from an earlier call
OutOfRangeRaisedOnUsedInstance ==
    /\ call.strategy = "memoization" /\ ret.kind = "OutOfRange"
    /\ memo # EmptyDict /\ numOps > 0

\* the operation count the call s(n) returns on a new instance
FreshOperationCount(s, n) ==
    IF s = "recursive"
    THEN RecursiveHelper(RecursiveReset(0), n).numOps + 2
    ELSE IF s = "memoization"
    THEN MemoizationHelper([memo |-> MemoizationResetMemo(EmptyDict),
                            numOps |-> MemoizationResetOps(0),
                            writes |-> <<>>, clobbers |-> 0, hits |-> 0],
                           n).st.numOps + 2
    ELSE IF s = "dynamicProgramming"
    THEN IF n = 1 \/ n = 2 THEN DynamicProgrammingReset(0) + 2
         ELSE DynamicProgrammingLoop(
                  [a |-> One, b |-> One, value |-> One,
                   numOps |-> DynamicProgrammingReset(0)],
                  3, LoopLast(n)).numOps
    ELSE ClosedFormReset(0) + ClosedFormCost

\* C6: the operation count a call returns is the one the same call returns
\* on a new instance, whatever calls came before on this one.
OperationCountDependsOnlyOnCall ==
    Returned => ret.ops = FreshOperationCount(call.strategy, call.n)

\* dynamicProgramming has returned on an instance whose memo an earlier
\* memoization call had filled
DynamicProgrammingReturnedAfterMemoization ==
    Returned /\ call.strategy = "dynamicProgramming" /\ call.n > 2
             /\ memo # EmptyDict

\* C7: a memoization call that passes its checks starts its recursion from
\* an empty memo, and it returns F(n) whatever the memo held before.
MemoizationStartsFromEmptyMemo ==
    /\ (pc = "running" /\ call.strategy = "memoization") => memo = EmptyDict
    /\ (Returned /\ call.strategy = "memoization")
          => (ret.value = F(call.n) /\ DOMAIN memo = 1..Max(call.n, 2))

\* memoization has returned for an argument smaller than the number of
\* entries an earlier call had left in the memo
MemoizationReturnedAfterLargerCall ==
    Returned /\ call.strategy = "memoization" /\ trace.stale = "larger"

\* C8 (as the specification states it): whenever closedForm returns, the
\* value is F(n).
ClosedFormReturnsFibonacci ==
    (Returned /\ call.strategy = "closedForm") => ret.value = F(call.n)

\* C8, amended: whenever closedForm returns for an argument up to 70, the
\* value is F(n).
ClosedFormReturnsFibonacciUpToSeventy ==
    (Returned /\ call.strategy = "closedForm" /\ call.n <= 70)
        => ret.value = F(call.n)

\* closedForm has returned for n = 70
ClosedFormReturnedForSeventy ==
    Returned /\ call.strategy = "closedForm" /\ call.n = 70

\* C9: in one memoization(n) call every key from 3 to n is assigned once,
\* no other key >= 3 is assigned, no assignment replaces an entry, and so
\* only the first request for a key recurses: the others are answered from
\* the memo.
EachIndexComputedOnce ==
    (Returned /\ call.strategy = "memoization") =>
        /\ Len(trace.writes) = Max(call.n, 2) - 2
        /\ {trace.writes[i] : i \in 1..Len(trace.writes)} = 3..call.n
        /\ trace.clobbers = 0

\* memoization has returned from a call in which requests were answered
\* from the memo
MemoizationReturnedWithHits ==
    Returned /\ call.strategy = "memoization" /\ trace.hits > 2
             /\ Len(trace.writes) > 2

\* C10: the operation count recursive(n) returns is 8 * F(n) - 5: 1 for
\* each of the F(n) base cases, 7 for each of the F(n) - 1 combining steps,
\* and the 2 of the wrapper, counted from 0.
RecursiveOperationCount ==
    (Returned /\ call.strategy = "recursive")
        => PyAdd(PyInt(ret.ops), PyInt(5)) = PyMul(F(call.n), PyInt(8))

\* recursive has returned for an argument with combining steps, on an
\* instance whose memo an earlier call had filled
RecursiveReturnedWithSteps ==
    Returned /\ call.strategy = "recursive" /\ call.n >= 5
             /\ memo # EmptyDict

====
